---- MODULE Spec2Model ----
(***************************************************************************)
(* Model of the quadrotor controller crate (controller/src/lib.rs):        *)
(* MotorSpeeds, IMUData, TransmitterState and Controller.                  *)
(*                                                                         *)
(* f32 values are modelled bit for bit: a value is its 24-digit binary     *)
(* significand and its exponent, and +, -, *, / and sqrt round to nearest, *)
(* ties to even, as IEEE 754 does.  NaN, the infinities, subnormal numbers *)
(* and the sign of zero are outside the model.                             *)
(***************************************************************************)
EXTENDS Integers, Sequences, FiniteSets, TLC

VARIABLES
    motors,       \* Controller.motors: the four Motor.speed fields
    imu_data,     \* Controller.imu.imu_data: [IMUDataPoint; 10]
    data_idx,     \* Controller.imu.data_idx
    speeds,       \* a MotorSpeeds value owned by the caller (MotorSpeeds::new())
    transmitter,  \* what the last TransmitterState::new call produced
    panic,        \* the panic that ended the program, NoPanic while it runs
    last_dp,      \* history: the IMUDataPoint passed to the last tick
    last_ts,      \* history: the TransmitterState passed to the last tick
    last_args,    \* history: the arguments of the last TransmitterState::new
    last_set      \* history: the motor and the value of the last setter call

vars == <<motors, imu_data, data_idx, speeds, transmitter, panic,
          last_dp, last_ts, last_args, last_set>>

----------------------------------------------------------------------------
(* f32 arithmetic *)

\* An f32 is <<m, e>>, the number m * 2^e, with 2^23 <= |m| < 2^24; zero is <<0, 0>>.
Zero == <<0, 0>>

Abs(n) == IF n < 0 THEN -n ELSE n
Sgn(n) == IF n < 0 THEN -1 ELSE IF n > 0 THEN 1 ELSE 0

\* the number of binary digits of n, 0 <= n < 2^31, by halving
Len2(n) == IF n >= 2 THEN 2 ELSE n
Len4(n) == IF n >= 4 THEN 2 + Len2(n \div 4) ELSE Len2(n)
Len8(n) == IF n >= 16 THEN 4 + Len4(n \div 16) ELSE Len4(n)
Len16(n) == IF n >= 256 THEN 8 + Len8(n \div 256) ELSE Len8(n)
BitLen(n) == IF n >= 65536 THEN 16 + Len16(n \div 65536) ELSE Len16(n)

\* round to nearest, ties to even: q is followed by the fraction r / (2 * half),
\* and by something more when sticky
RoundUp(q, r, half, sticky) == r > half \/ (r = half /\ (sticky \/ q % 2 = 1))

\* a significand that rounded up to 2^24 is 2^23 at the next exponent
Carry(sign, q, e) ==
    IF q = 16777216 THEN <<sign * 8388608, e + 1>> ELSE <<sign * q, e>>

\* Round for a magnitude of len binary digits
RoundLen(sign, mag, e, sticky, len) ==
    IF len <= 24
    THEN <<sign * mag * (2 ^ (24 - len)), e - (24 - len)>>
    ELSE Carry(sign,
               IF RoundUp(mag \div (2 ^ (len - 24)), mag % (2 ^ (len - 24)),
                          2 ^ (len - 25), sticky)
               THEN mag \div (2 ^ (len - 24)) + 1
               ELSE mag \div (2 ^ (len - 24)),
               e + (len - 24))

\* sign * (mag + a fraction, non-zero when sticky) * 2^e rounded to 24
\* binary digits, to nearest, ties to even; 0 < mag < 2^31
Round(sign, mag, e, sticky) == RoundLen(sign, mag, e, sticky, BitLen(mag))

\* the f32 nearest to n * 2^e, |n| < 2^31
FromInt(n, e) == IF n = 0 THEN Zero ELSE Round(Sgn(n), Abs(n), e, FALSE)

FNeg(x) == <<-x[1], x[2]>>

\* sx * a * 2^e + sy * (b + a fraction, non-zero when sticky) * 2^e, a >= b
\* whenever sticky
AddAligned(sx, a, sy, b, e, sticky) ==
    IF sx = sy THEN Round(sx, a + b, e, sticky)
    ELSE IF sticky THEN Round(sx, a - b - 1, e, TRUE)
    ELSE IF a = b THEN Zero
    ELSE IF a > b THEN Round(sx, a - b, e, FALSE)
    ELSE Round(sy, b - a, e, FALSE)

\* x + y with x[2] >= y[2], neither zero: six guard digits, y shifted to
\* the exponent of x
AddOrdered(x, y) ==
    IF x[2] - y[2] >= 26 THEN x
    ELSE AddAligned(Sgn(x[1]), Abs(x[1]) * 64,
                    Sgn(y[1]), (Abs(y[1]) * 64) \div (2 ^ (x[2] - y[2])),
                    x[2] - 6, (Abs(y[1]) * 64) % (2 ^ (x[2] - y[2])) # 0)

FAdd(x, y) ==
    IF x[1] = 0 THEN y
    ELSE IF y[1] = 0 THEN x
    ELSE IF x[2] >= y[2] THEN AddOrdered(x, y) ELSE AddOrdered(y, x)

FSub(x, y) == FAdd(x, FNeg(y))

\* a 48-digit product as <<the digits above the lowest 24, the lowest 24>>
MulSplit(high, low) == <<high + low \div 16777216, low % 16777216>>

MulCarry(high, mid, low) == MulSplit(high + mid \div 4096, low + (mid % 4096) * 4096)

\* the product of two 24-digit magnitudes from their 12-digit halves
MulDigits(h1, l1, h2, l2) == MulCarry(h1 * h2, h1 * l2 + l1 * h2, l1 * l2)

MulRound(sign, p, e) ==
    Round(sign, p[1] * 64 + p[2] \div 262144, e + 18, p[2] % 262144 # 0)

FMul(x, y) ==
    IF x[1] = 0 \/ y[1] = 0 THEN Zero
    ELSE MulRound(Sgn(x[1]) * Sgn(y[1]),
                  MulDigits(Abs(x[1]) \div 4096, Abs(x[1]) % 4096,
                            Abs(y[1]) \div 4096, Abs(y[1]) % 4096),
                  x[2] + y[2])

RECURSIVE DivDigits(_, _, _, _)
\* long division: i binary digits of the quotient are left;
\* <<quotient, remainder>>
DivDigits(rem, d, i, q) ==
    IF i = 0 THEN <<q, rem>>
    ELSE IF 2 * rem >= d THEN DivDigits(2 * rem - d, d, i - 1, 2 * q + 1)
                         ELSE DivDigits(2 * rem, d, i - 1, 2 * q)

DivRound(sign, s, e) == Round(sign, s[1], e, s[2] # 0)

\* x / y, y not zero
FDiv(x, y) ==
    IF x[1] = 0 THEN Zero
    ELSE DivRound(Sgn(x[1]) * Sgn(y[1]),
                  DivDigits(Abs(x[1]) % Abs(y[1]), Abs(y[1]), 26, Abs(x[1]) \div Abs(y[1])),
                  x[2] - y[2] - 26)

RECURSIVE SqrtDigits(_, _, _, _)
\* one digit of the root: r is the remainder with the next pair of digits
SqrtStep(n, i, root, r) ==
    IF r >= 4 * root + 1 THEN SqrtDigits(n, i - 1, 2 * root + 1, r - (4 * root + 1))
                         ELSE SqrtDigits(n, i - 1, 2 * root, r)

\* the digit-by-digit square root of n * 4^13: i pairs of binary digits are
\* left; <<root, remainder>>
SqrtDigits(n, i, root, rem) ==
    IF i = 0 THEN <<root, rem>>
    ELSE SqrtStep(n, i, root,
                  4 * rem + (IF i > 13 THEN (n \div (4 ^ (i - 14))) % 4 ELSE 0))

SqrtRound(s, e) == Round(1, s[1], e, s[2] # 0)

\* sqrt(x), x not negative: the exponent is made even first
FSqrt(x) ==
    IF x[1] = 0 THEN Zero
    ELSE IF x[2] % 2 = 1
    THEN SqrtRound(SqrtDigits(2 * x[1], 26, 0, 0), (x[2] - 1) \div 2 - 13)
    ELSE SqrtRound(SqrtDigits(x[1], 26, 0, 0), x[2] \div 2 - 13)

FLt(x, y) ==
    IF x[1] = 0 THEN y[1] > 0
    ELSE IF y[1] = 0 THEN x[1] < 0
    ELSE IF x[1] < 0 /\ y[1] > 0 THEN TRUE
    ELSE IF x[1] > 0 /\ y[1] < 0 THEN FALSE
    ELSE IF x[1] > 0 THEN x[2] < y[2] \/ (x[2] = y[2] /\ x[1] < y[1])
    ELSE x[2] > y[2] \/ (x[2] = y[2] /\ x[1] < y[1])

FGt(x, y) == FLt(y, x)

\* the f32 literals of the program
One == FromInt(1, 0)
Six == FromInt(6, 0)
Half == FromInt(1, -1)
Quarter == FromInt(1, -2)

\* core::f32::consts::PI, 0x40490FDB
PI == <<13176795, -22>>

----------------------------------------------------------------------------
(* nalgebra::Vector3<f32> as a triple <<x, y, z>> *)

Vector3_new(x, y, z) == <<x, y, z>>
Vector3_zeros == <<Zero, Zero, Zero>>
VSub(a, b) == <<FSub(a[1], b[1]), FSub(a[2], b[2]), FSub(a[3], b[3])>>
VScale(v, s) == <<FMul(v[1], s), FMul(v[2], s), FMul(v[3], s)>>
Dot(a, b) == FAdd(FAdd(FMul(a[1], b[1]), FMul(a[2], b[2])), FMul(a[3], b[3]))

----------------------------------------------------------------------------
(* free functions *)

min(v1, v2) == IF FLt(v1, v2) THEN v1 ELSE v2

max(v1, v2) == IF FGt(v1, v2) THEN v1 ELSE v2

length(vec) ==
    FSqrt(FAdd(FAdd(FMul(vec[1], vec[1]), FMul(vec[2], vec[2])),
               FMul(vec[3], vec[3])))

\* constrain without the upper bound
constrain_unbounded_above(val) == max(val, Zero)

constrain(val) == min(max(val, Zero), One)

----------------------------------------------------------------------------
(* MotorSpeeds: the four motors, their fixed positions and their speeds *)

MotorNames == {"front_left", "front_right", "rear_left", "rear_right"}

front_left_pos  == Vector3_new(One, Zero, FNeg(One))
front_right_pos == Vector3_new(One, Zero, One)
rear_left_pos   == Vector3_new(FNeg(One), Zero, FNeg(One))
rear_right_pos  == Vector3_new(FNeg(One), Zero, One)

MotorPos(m) ==
    CASE m = "front_left"  -> front_left_pos
      [] m = "front_right" -> front_right_pos
      [] m = "rear_left"   -> rear_left_pos
      [] m = "rear_right"  -> rear_right_pos

\* MotorSpeeds::new(): every Motor::new sets speed 0.0
MotorSpeeds_new == [m \in MotorNames |-> Zero]

\* what set_front_left .. set_rear_right store
setter_value(val) == min(max(val, Zero), One)

----------------------------------------------------------------------------
(* IMUDataPoint and IMUData *)

Capacity == 10

IMUDataPoint_new(gyro, accel, time_point) ==
    [gyro |-> gyro, accel |-> accel, time_point |-> time_point]

IMUDataPoint_default == IMUDataPoint_new(Vector3_zeros, Vector3_zeros, Zero)

\* IMUData::new(): ten default points, data_idx 0
IMUData_new_data == [i \in 0..(Capacity - 1) |-> IMUDataPoint_default]

NoPanic == "none"
IndexOutOfBounds == "index out of bounds"
TransmitterPanic == "Transmitter values must be between 1 and 0"

\* An indexing outside the array panics; the value stands for "no value".
OutOfBounds == [panic |-> IndexOutOfBounds]

\* IMUData::add_data_point: the index moves first, then the slot is written.
\* The indexing is bounds-checked: outside 0..9 it panics, after the increment.
add_data_point(data, idx, data_point) ==
    LET next == idx + 1
    IN  IF next \in DOMAIN data
        THEN [imu_data |-> [data EXCEPT ![next] = data_point],
              data_idx |-> next, panic |-> NoPanic]
        ELSE [imu_data |-> data, data_idx |-> next, panic |-> IndexOutOfBounds]

\* get_data_point reading the slot before data_idx
get_data_point_stale(data, idx) ==
    IF idx - 1 \in DOMAIN data THEN data[idx - 1] ELSE OutOfBounds

\* IMUData::get_data_point: the slot at data_idx
get_data_point(data, idx) ==
    IF idx \in DOMAIN data THEN data[idx] ELSE OutOfBounds

----------------------------------------------------------------------------
(* TransmitterState *)

\* validate_input: TRUE when the value passes, FALSE when it panics
validate_input(val) == ~(FGt(val, One) \/ FLt(val, Zero))

\* TransmitterState::new: the struct, or the panic of the first failing field
TransmitterState_new(up_down, rotate_pos_neg, forwar_backward, left_right) ==
    IF /\ validate_input(up_down)
       /\ validate_input(rotate_pos_neg)
       /\ validate_input(forwar_backward)
       /\ validate_input(left_right)
    THEN [up_down |-> up_down, rotate_pos_neg |-> rotate_pos_neg,
          left_right |-> left_right, forwar_backward |-> forwar_backward]
    ELSE [panic |-> TransmitterPanic]

IsTransmitterState(t) == DOMAIN t = {"up_down", "rotate_pos_neg", "left_right", "forwar_backward"}

----------------------------------------------------------------------------
(* Controller *)

\* (1.0 / 6.0) * PI * axis, evaluated left to right
rotation_rate(axis) == FMul(FMul(FDiv(One, Six), PI), axis)

desired_rotation(ts) ==
    Vector3_new(rotation_rate(ts.left_right), Zero, rotation_rate(ts.forwar_backward))

\* calculate_torque without dt.y = 0.0
calculate_torque_keep_y(data, idx, desired) ==
    VSub(desired, get_data_point(data, idx).gyro)

\* dt.y = 0.0
zero_y(dt) == <<dt[1], Zero, dt[3]>>

\* Controller::calculate_torque
calculate_torque(data, idx, desired) ==
    zero_y(VSub(desired, get_data_point(data, idx).gyro))

\* torque - pos * pos.dot(&torque)
residual(torque, pos) == VSub(torque, VScale(pos, Dot(pos, torque)))

front_left_speed(torque, ts) ==
    constrain(FAdd(FAdd(length(residual(torque, front_left_pos)),
                        FMul(ts.up_down, Half)),
                   FMul(ts.rotate_pos_neg, Quarter)))

\* front_right with the yaw term added instead of subtracted
front_right_speed_plus_yaw(torque, ts) ==
    constrain(FAdd(FAdd(length(residual(torque, front_right_pos)),
                        FMul(ts.up_down, Half)),
                   FMul(ts.rotate_pos_neg, Quarter)))

front_right_speed(torque, ts) ==
    constrain(FSub(FAdd(length(residual(torque, front_right_pos)),
                        FMul(ts.up_down, Half)),
                   FMul(ts.rotate_pos_neg, Quarter)))

rear_left_speed(torque, ts) ==
    constrain(FSub(FAdd(length(residual(torque, rear_left_pos)),
                        FMul(ts.up_down, Half)),
                   FMul(ts.rotate_pos_neg, Quarter)))

rear_right_speed(torque, ts) ==
    constrain(FAdd(FAdd(length(residual(torque, rear_right_pos)),
                        FMul(ts.up_down, Half)),
                   FMul(ts.rotate_pos_neg, Quarter)))

\* the four assignments to self.motors
set_motor_speeds(torque, ts) ==
    [front_left  |-> front_left_speed(torque, ts),
     front_right |-> front_right_speed(torque, ts),
     rear_left   |-> rear_left_speed(torque, ts),
     rear_right  |-> rear_right_speed(torque, ts)]

\* calculate_motor_speeds after self.imu.add_data_point: a panic there ends
\* the call before anything else is touched
mix_added(m, added, ts) ==
    IF added.panic # NoPanic
    THEN [motors |-> m, imu_data |-> added.imu_data,
          data_idx |-> added.data_idx, panic |-> added.panic]
    ELSE [motors |-> set_motor_speeds(
                         calculate_torque(added.imu_data, added.data_idx,
                                          desired_rotation(ts)),
                         ts),
          imu_data |-> added.imu_data,
          data_idx |-> added.data_idx,
          panic |-> NoPanic]

\* Controller::calculate_motor_speeds on a controller (m, data, idx): the
\* controller it leaves
calculate_motor_speeds(m, data, idx, imu_data_point, ts) ==
    mix_added(m, add_data_point(data, idx, imu_data_point), ts)

----------------------------------------------------------------------------
(* state machine *)

\* no tick yet (a record, as the inputs of a tick are)
None == [none |-> TRUE]

\* no call yet (a tuple, as the arguments of a call are)
NoCall == <<>>

\* Controller::new() and MotorSpeeds::new()
Init ==
    /\ motors = MotorSpeeds_new
    /\ imu_data = IMUData_new_data
    /\ data_idx = 0
    /\ speeds = MotorSpeeds_new
    /\ transmitter = None
    /\ panic = NoPanic
    /\ last_dp = None
    /\ last_ts = None
    /\ last_args = NoCall
    /\ last_set = NoCall

\* one call controller.calculate_motor_speeds(dp, &ts)
Tick(dp, ts) ==
    /\ panic = NoPanic
    /\ \E after \in {calculate_motor_speeds(motors, imu_data, data_idx, dp, ts)} :
           /\ motors' = after.motors
           /\ imu_data' = after.imu_data
           /\ data_idx' = after.data_idx
           /\ panic' = after.panic
    /\ last_dp' = dp
    /\ last_ts' = ts
    /\ UNCHANGED <<speeds, transmitter, last_args, last_set>>

\* speeds.set_<m>(val) on the caller's MotorSpeeds
SetSpeed(m, val) ==
    /\ panic = NoPanic
    /\ speeds' = [speeds EXCEPT ![m] = setter_value(val)]
    /\ last_set' = <<m, val>>
    /\ UNCHANGED <<motors, imu_data, data_idx, transmitter, panic,
                   last_dp, last_ts, last_args>>

set_front_left(val)  == SetSpeed("front_left", val)
set_front_right(val) == SetSpeed("front_right", val)
set_rear_left(val)   == SetSpeed("rear_left", val)
set_rear_right(val)  == SetSpeed("rear_right", val)

\* one call TransmitterState::new(a, b, c, d)
TransmitterNew(a, b, c, d) ==
    /\ panic = NoPanic
    /\ LET made == TransmitterState_new(a, b, c, d)
       IN  /\ transmitter' = made
           /\ panic' = IF IsTransmitterState(made) THEN NoPanic ELSE made.panic
    /\ last_args' = <<a, b, c, d>>
    /\ UNCHANGED <<motors, imu_data, data_idx, speeds, last_dp, last_ts, last_set>>

----------------------------------------------------------------------------
(* inputs *)

\* the TransmitterState values that exist: those TransmitterState::new returns
Commands(axis) ==
    {t \in {TransmitterState_new(a, b, c, d) : a, b, c, d \in axis} :
        IsTransmitterState(t)}

\* n / 1024 as an f32 (exact for |n| < 2^24)
Units(n) == FromInt(n, -10)

UnitsVec(v) == <<Units(v[1]), Units(v[2]), Units(v[3])>>

\* a sample and a command set from numbers of 1/1024
Sample(gyro, accel, time_point) ==
    IMUDataPoint_new(UnitsVec(gyro), UnitsVec(accel), Units(time_point))

Command(up_down, rotate_pos_neg, forwar_backward, left_right) ==
    TransmitterState_new(Units(up_down), Units(rotate_pos_neg),
                         Units(forwar_backward), Units(left_right))

\* a flight: two distinct samples and three command sets, tick after tick
FlightSamples ==
    {Sample(<<-96, 0, 128>>, <<0, -1024, 0>>, 32),
     Sample(<<192, 64, -256>>, <<32, -992, 0>>, 64)}

FlightCommands ==
    {Command(512, 0, 0, 0), Command(256, 512, 0, 0), Command(0, 0, 256, 512)}

\* the mixing step: gyro X and Z are zero or the rate a full roll or pitch
\* command asks for, with a yaw rate, an acceleration and a time stamp; and
\* one sample that meets no command
GyroAxis == {Zero, rotation_rate(One)}

MixSamples ==
    {IMUDataPoint_new(<<x, Units(320), z>>, UnitsVec(<<64, -1024, 96>>), Units(48)) :
        x, z \in GyroAxis}
    \cup {Sample(<<-384, 320, 128>>, <<64, -1024, 96>>, 48)}

MixCommands == Commands({Zero, One})

\* the setters and the mixing step side by side
SetterValues == {Units(-512), Units(256), Units(1536)}

SpeedSamples ==
    {Sample(<<0, 0, 0>>, <<0, 0, 0>>, 0),
     Sample(<<384, 0, -512>>, <<0, -1024, 0>>, 16)}

SpeedCommands ==
    {Command(0, 1024, 0, 0), Command(1024, 1024, 0, 0), Command(512, 0, 1024, 1024)}

\* the f32 literal -0.1, 0xBDCCCCCD
NegTenth == <<-13421773, -27>>

\* raw axis values offered to TransmitterState::new (-0.1, 0, 0.5, 1, 1.5)
AxisValues == {NegTenth, Zero, Half, One, Units(1536)}

\* ticks explored per controller where the inputs are many
MaxTicks == 2

----------------------------------------------------------------------------
(* specifications *)

\* a controller ticked until the program ends
Next == \E dp \in FlightSamples, ts \in FlightCommands : Tick(dp, ts)

Spec == Init /\ [][Next]_vars

\* the mixing step over the input grid
MixTick == \E dp \in MixSamples, ts \in MixCommands : data_idx < MaxTicks /\ Tick(dp, ts)

NextMix == MixTick

SpecMix == Init /\ [][NextMix]_vars

\* the caller's MotorSpeeds and the controller's
SpeedTick == \E dp \in SpeedSamples, ts \in SpeedCommands : data_idx < MaxTicks /\ Tick(dp, ts)

NextSpeeds ==
    \/ SpeedTick
    \/ \E v \in SetterValues : set_front_left(v)
    \/ \E v \in SetterValues : set_front_right(v)
    \/ \E v \in SetterValues : set_rear_left(v)
    \/ \E v \in SetterValues : set_rear_right(v)

SpecSpeeds == Init /\ [][NextSpeeds]_vars

\* construction of the command input
NextTransmitter == \E a, b, c, d \in AxisValues : TransmitterNew(a, b, c, d)

SpecTransmitter == Init /\ [][NextTransmitter]_vars

----------------------------------------------------------------------------
(* properties *)

\* a tick has been called and it returned
TickReturned == last_dp # None /\ panic = NoPanic

\* clamp(v, 0, 1) as the specification writes it
Clamp01(v) == IF FLt(v, Zero) THEN Zero ELSE IF FGt(v, One) THEN One ELSE v

InRange(v) == ~FLt(v, Zero) /\ ~FGt(v, One)

\* the torque error of the last tick, from the inputs of that tick
LastTorqueIsZero ==
    /\ desired_rotation(last_ts)[1] = last_dp.gyro[1]
    /\ desired_rotation(last_ts)[3] = last_dp.gyro[3]

\* the motor speeds a fresh Controller returns for one tick
FreshTick(dp, ts) ==
    calculate_motor_speeds(MotorSpeeds_new, IMUData_new_data, 0, dp, ts).motors

\* C1: every call of calculate_motor_speeds with a valid TransmitterState and
\* a finite sample returns; none aborts, on the 10th tick or later.
C1_TickNeverAborts == last_dp # None => panic = NoPanic

\* C2: after any number of appends the write index of add_data_point is a
\* slot of the 10-slot storage, 0..9 (or the append failed with BufferFull).
C2_WriteIndexInsideStorage ==
    data_idx \in 0..(Capacity - 1) \/ panic = "BufferFull"

\* C3: all four motor speeds, of the caller's MotorSpeeds and of the
\* controller's, lie in [0,1] in every reachable state, and a setter stores
\* min(max(v,0),1) of the value it was given.
C3_SpeedsInUnitInterval ==
    /\ \A m \in MotorNames : InRange(speeds[m]) /\ InRange(motors[m])
    /\ last_set # NoCall => speeds[last_set[1]] = Clamp01(last_set[2])

\* a setter saturated an out-of-range value at each end and a tick saturated
\* a raw speed above 1
C3_Witness ==
    /\ TickReturned
    /\ motors.front_left = One
    /\ FGt(FAdd(FAdd(length(residual(calculate_torque(imu_data, data_idx,
                                                       desired_rotation(last_ts)),
                                      front_left_pos)),
                      FMul(last_ts.up_down, Half)),
                 FMul(last_ts.rotate_pos_neg, Quarter)),
           One)
    /\ last_set = <<"rear_left", Units(-512)>>
    /\ speeds.rear_left = Zero
    /\ speeds.front_right = One
    /\ speeds.rear_right = Quarter

\* C4 as stated: construction succeeds exactly when all four axes lie in
\* [0,1]; otherwise it fails with a recoverable InvalidInput error value that
\* names the axis and the value out of bounds.
C4_InvalidInputIdentifiesAxis ==
    last_args # NoCall =>
        IF \A i \in 1..4 : InRange(last_args[i])
        THEN IsTransmitterState(transmitter) /\ panic = NoPanic
        ELSE /\ panic = NoPanic
             /\ \E i \in 1..4 :
                    /\ ~InRange(last_args[i])
                    /\ transmitter = [error |-> "InvalidInput", axis |-> i,
                                      value |-> last_args[i]]

\* C5: reading the latest sample of a history nothing was appended to fails
\* with NoData; it does not return a default sample.
C5_EmptyReadIsNoData ==
    last_dp = None => get_data_point(imu_data, data_idx) = [error |-> "NoData"]

\* C6: after any non-empty sequence of appends, get_data_point returns the
\* sample passed to the last add_data_point call.
C6_LatestIsLastAppended ==
    last_dp # None => get_data_point(imu_data, data_idx) = last_dp

\* C7: when the torque error of a tick is zero, the tick sets front-left and
\* rear-right to clamp(throttle*0.5 + yaw*0.25) and front-right and rear-left
\* to clamp(throttle*0.5 - yaw*0.25); all-zero commands give 0 everywhere,
\* throttle 1 alone gives 0.5 everywhere, yaw 1 alone gives 0.25 and 0.
C7_ZeroTorqueMix ==
    (TickReturned /\ LastTorqueIsZero) =>
        LET plus  == Clamp01(FAdd(FMul(last_ts.up_down, Half),
                                  FMul(last_ts.rotate_pos_neg, Quarter)))
            minus == Clamp01(FSub(FMul(last_ts.up_down, Half),
                                  FMul(last_ts.rotate_pos_neg, Quarter)))
        IN  /\ motors.front_left = plus
            /\ motors.rear_right = plus
            /\ motors.front_right = minus
            /\ motors.rear_left = minus
            /\ last_ts = TransmitterState_new(Zero, Zero, Zero, Zero)
                   => \A m \in MotorNames : motors[m] = Zero
            /\ last_ts = TransmitterState_new(One, Zero, Zero, Zero)
                   => \A m \in MotorNames : motors[m] = Half
            /\ last_ts = TransmitterState_new(Zero, One, Zero, Zero)
                   => /\ motors.front_left = Quarter /\ motors.rear_right = Quarter
                      /\ motors.front_right = Zero /\ motors.rear_left = Zero

\* a tick with a full roll and yaw command met by a gyro turning at the
\* commanded rate: the torque error is zero with a sample that is not
\* zero, and the yaw term splits the diagonals
C7_Witness ==
    /\ TickReturned
    /\ LastTorqueIsZero
    /\ last_ts = TransmitterState_new(One, One, Zero, One)
    /\ last_dp.gyro[1] # Zero
    /\ motors.front_left = Units(768)
    /\ motors.front_right = Units(256)

\* C8: the speeds a tick returns depend on the command input and the sample
\* of that tick alone: they are the speeds a fresh controller returns for
\* the same inputs, whatever speeds were stored and whatever was ingested.
C8_TickIsFunctionOfInputs ==
    TickReturned => motors = FreshTick(last_dp, last_ts)

\* a ninth tick, after eight ticks of other samples and other speeds
C8_Witness ==
    /\ TickReturned
    /\ data_idx = Capacity - 1
    /\ \E i \in 1..(data_idx - 1) : imu_data[i] # last_dp
    /\ motors # MotorSpeeds_new

\* what f32 rounding may leave of a sum that is zero in exact arithmetic
RoundingSlack == FromInt(1, -16)

\* C9: for each of the four motor positions p and every non-zero torque
\* error t, the residual t - p*(p . t) of the mixing step is perpendicular
\* to p: residual . p = 0 (within f32 rounding).
C9_ResidualPerpendicular ==
    LET torque == calculate_torque(imu_data, data_idx, desired_rotation(last_ts))
    IN  (TickReturned /\ torque # Vector3_zeros) =>
            \A m \in MotorNames :
                LET d == Dot(residual(torque, MotorPos(m)), MotorPos(m))
                IN  ~FGt(d, RoundingSlack) /\ ~FLt(d, FNeg(RoundingSlack))

\* C10: the speeds of a tick do not depend on the sample's angular velocity
\* Y, its acceleration or its time stamp: they are the speeds of the same
\* tick with those three set to zero.
C10_YawRateExcluded ==
    TickReturned =>
        motors = FreshTick(IMUDataPoint_new(<<last_dp.gyro[1], Zero, last_dp.gyro[3]>>,
                                            Vector3_zeros, Zero),
                           last_ts)

\* a tick whose sample has a yaw rate, an acceleration and a time stamp, and
\* whose speeds are not saturated
C10_Witness ==
    /\ TickReturned
    /\ last_dp.gyro[2] # Zero
    /\ last_dp.accel # Vector3_zeros
    /\ last_dp.time_point # Zero
    /\ \A m \in MotorNames : FGt(motors[m], Zero) /\ FLt(motors[m], One)

====
